---- MODULE Spec2Model ----
(***************************************************************************)
(* Model of the line! macro of ratatui-macros (src/src/line.rs).           *)
(*                                                                         *)
(* A macro invocation is a token sequence.  macro_rules tries the three    *)
(* rules in order; the matching rule's transcriber yields an expression,   *)
(* modelled here as the sequence of operations that Rust's left-to-right   *)
(* evaluation of that expression performs.  The operations are then run    *)
(* one at a time on a small evaluator: an operand stack, the Vec<Span>     *)
(* being built, and the trace of caller expressions evaluated so far.      *)
(***************************************************************************)
EXTENDS Integers, Sequences, FiniteSets

\* Bounds of the model.
MaxElems == 2
MaxCount == 2
MaxTokens == 4

\* Target constants behind vec![elem; n] (alloc::vec::from_elem): a 32-bit
\* target's isize::MAX (a 64-bit target checks against 2^63 - 1 in the same
\* way), and a lower bound on size_of::<Span>() (its Cow<str> content alone
\* is three words).
IsizeMax == 2147483647
SpanSize == 12

---------------------------------------------------------------------------
VARIABLES
    inv,      \* tokens of the current invocation
    form,     \* rule that matched: "empty", "repeat", "list", or "none"
    phase,    \* "idle", "running", "done"
    code,     \* operations of the expansion
    ip,       \* index of the next operation
    stack,    \* operands evaluated and not yet consumed
    vec,      \* the Vec<Span> handed to Line::from
    trace,    \* caller expressions evaluated by this invocation, in order
    result,   \* <<line>> once the expansion has returned, else <<>>
    outcome,  \* "pending", "ok", "panic", "syntax_error", "type_error"
    bound     \* <<record>> of the line the caller bound last, else <<>>

vars == <<inv, form, phase, code, ip, stack, vec, trace, result, outcome, bound>>

---------------------------------------------------------------------------
\* Expressions a caller can write in an invocation, all of one record shape.

NoExpr == [kind |-> "none", content |-> "", style |-> "none", n |-> 0]

\* A string literal such as "hello".
Str(c) == [kind |-> "str", content |-> c, style |-> "none", n |-> 0]

\* A pre-built span: Span::raw(c), raw!(c) (style "none") or c.red().
SpanOf(c, s) == [kind |-> "span", content |-> c, style |-> s, n |-> 0]

\* A usize expression.
Count(k) == [kind |-> "int", content |-> "", style |-> "none", n |-> k]

SpanExprs == {Str("hello"), SpanOf("hello", "none"), SpanOf("world", "red")}

CountExprs == {Count(k) : k \in 0..MaxCount} \cup {Count(IsizeMax)}

\* Tokens of an invocation: an expression, a comma or a semicolon.
Tok(e) == [cls |-> "expr", e |-> e]
Comma == [cls |-> "comma", e |-> NoExpr]
Semi == [cls |-> "semi", e |-> NoExpr]

SeqsUpTo(S, n) == UNION {[1..k -> S] : k \in 0..n}

\* The token sequence  e1, e2, ..., ek  with or without a trailing comma.
ListTokens(es, trailing) ==
    [i \in 1..(2 * Len(es) - (IF trailing THEN 0 ELSE 1)) |->
        IF i % 2 = 1 THEN Tok(es[(i + 1) \div 2]) ELSE Comma]

\* Invocations the model tries: every invocation of the three documented
\* shapes whose element positions hold a span expression or one expression
\* of a type without a conversion to Span, and whose count position holds
\* a count or one expression that is no usize; and every token sequence of
\* up to MaxTokens tokens over one expression and the two separators (rule
\* matching looks at the class of a token only).
ElemExprs == SpanExprs \cup {Count(1)}

CountLikeExprs == CountExprs \cup {Str("hello")}

Shaped ==
    {<<>>}
    \cup {<<Tok(a), Semi, Tok(b)>> : a \in ElemExprs, b \in CountLikeExprs}
    \cup {ListTokens(es, t) : es \in SeqsUpTo(ElemExprs, MaxElems) \ {<<>>}, t \in BOOLEAN}

Probes == SeqsUpTo({Tok(Str("hello")), Comma, Semi}, MaxTokens)

Invocations == Shaped \cup Probes

---------------------------------------------------------------------------
\* Rule matching (macro_rules! line, rules tried top to bottom).

HasTrailingComma(t) == Len(t) > 0 /\ t[Len(t)].cls = "comma"

\* () => ...
MatchesEmpty(t) == Len(t) = 0

\* ($span:expr; $n:expr) => ...
MatchesRepeat(t) ==
    /\ Len(t) = 3
    /\ t[1].cls = "expr"
    /\ t[2].cls = "semi"
    /\ t[3].cls = "expr"

\* ($($span:expr),+ $(,)?) => ...   matched from token i on
RECURSIVE MatchesListFrom(_, _)
MatchesListFrom(t, i) ==
    IF i > Len(t) \/ t[i].cls # "expr" THEN FALSE
    ELSE IF i = Len(t) THEN TRUE
    ELSE IF t[i + 1].cls # "comma" THEN FALSE
    ELSE IF i + 1 = Len(t) THEN TRUE
    ELSE MatchesListFrom(t, i + 2)

\* Mutant: the list rule written without its optional trailing comma.
MatchesListNoTrailing(t) == MatchesListFrom(t, 1) /\ ~HasTrailingComma(t)

MatchesList(t) == MatchesListFrom(t, 1)

Rule(t) ==
    IF MatchesEmpty(t) THEN "empty"
    ELSE IF MatchesRepeat(t) THEN "repeat"
    ELSE IF MatchesList(t) THEN "list"
    ELSE "none"

\* The expressions bound to the rule's metavariables, in source order.
Bindings(t) ==
    LET r == Rule(t)
    IN  IF r = "repeat" THEN <<t[1].e, t[3].e>>
        ELSE IF r = "list" THEN [i \in 1..((Len(t) + 1) \div 2) |-> t[2 * i - 1].e]
        ELSE <<>>

---------------------------------------------------------------------------
\* Typing of the expansion.

\* $span.into() needs Into<Span>: string types and Span itself have it.
Convertible(e) == e.kind \in {"str", "span"}

\* vec![elem; n] needs n: usize.
IsUsize(e) == e.kind = "int"

WellTyped(rule, args) ==
    IF rule = "repeat" THEN Convertible(args[1]) /\ IsUsize(args[2])
    ELSE \A i \in 1..Len(args) : Convertible(args[i])

---------------------------------------------------------------------------
\* Values.

\* Mutant: every element is rebuilt as a plain span of its content.
ConvertRaw(e) == SpanOf(e.content, "none")

\* $span.into(): a string becomes a span of that content with the default
\* style (Span::raw); a Span is returned as it is (From<T> for T).
Convert(e) ==
    IF e.kind = "str" THEN SpanOf(e.content, "none") ELSE e

\* Mutant: a line holding one empty span instead of none.
DefaultLineOneSpan ==
    [spans |-> <<SpanOf("", "none")>>, style |-> "none", alignment |-> "none"]

\* Line::default()
DefaultLine == [spans |-> <<>>, style |-> "none", alignment |-> "none"]

\* Mutant: the spans are appended to a buffer shared with the line the
\* caller bound before.
LineFromShared(v) ==
    [spans |-> (IF bound = <<>> THEN <<>> ELSE bound[1].line.spans) \o v,
     style |-> "none", alignment |-> "none"]

\* Line::from(Vec<Span>)
LineFrom(v) == [spans |-> v, style |-> "none", alignment |-> "none"]

\* Mutant: a capacity check that trips on any count above one.
CapacityOverflowSmall(n) == n > 1

\* vec![elem; n] panics with "capacity overflow" when n elements exceed
\* isize::MAX bytes.
CapacityOverflow(n) == n > IsizeMax \div SpanSize

\* Mutant: only the n - 1 clones are kept, the original is dropped.
FromElemClonesOnly(elem, n) == [i \in 1..(n - 1) |-> elem]

\* Mutant: a vector that is never empty.
FromElemAtLeastOne(elem, n) == [i \in 1..(IF n = 0 THEN 1 ELSE n) |-> elem]

\* vec![elem; n]: n - 1 clones of elem and elem itself.
FromElem(elem, n) == [i \in 1..n |-> elem]

---------------------------------------------------------------------------
\* Transcription: the operations of the expanded expression, in the order
\* Rust evaluates them.

Instr(op, e, k) == [op |-> op, e |-> e, k |-> k]

\* ratatui::text::Line::default()
ExpandEmpty == <<Instr("default", NoExpr, 0)>>

\* Mutant: the count is evaluated before the value.
ExpandRepeatCountFirst(span, n) ==
    << Instr("eval", n, 0),
       Instr("into", span, 0),
       Instr("from_elem", NoExpr, 0),
       Instr("line_from", NoExpr, 0) >>

\* ratatui::text::Line::from(vec![$span.into(); $n])
ExpandRepeat(span, n) ==
    << Instr("into", span, 0),
       Instr("eval", n, 0),
       Instr("from_elem", NoExpr, 0),
       Instr("line_from", NoExpr, 0) >>

\* Mutant: the elements are transcribed last to first.
ExpandListReversed(args) ==
    [i \in 1..Len(args) |-> Instr("into", args[Len(args) + 1 - i], 0)]
    \o << Instr("vec", NoExpr, Len(args)), Instr("line_from", NoExpr, 0) >>

\* Mutant: each element expression is transcribed twice.
ExpandListTwice(args) ==
    [i \in 1..(2 * Len(args)) |-> Instr("into", args[(i + 1) \div 2], 0)]
    \o << Instr("vec", NoExpr, Len(args)), Instr("line_from", NoExpr, 0) >>

\* ratatui::text::Line::from(vec![ $( $span.into(), )+ ])
ExpandList(args) ==
    [i \in 1..Len(args) |-> Instr("into", args[i], 0)]
    \o << Instr("vec", NoExpr, Len(args)), Instr("line_from", NoExpr, 0) >>

---------------------------------------------------------------------------
Init ==
    /\ inv = <<>>
    /\ form = "none"
    /\ phase = "idle"
    /\ code = <<>>
    /\ ip = 1
    /\ stack = <<>>
    /\ vec = <<>>
    /\ trace = <<>>
    /\ result = <<>>
    /\ outcome = "pending"
    /\ bound = <<>>

\* An invocation starts: fresh evaluator state, nothing produced yet.
Start(t, f, c) ==
    /\ inv' = t
    /\ form' = f
    /\ code' = c
    /\ ip' = 1
    /\ stack' = <<>>
    /\ vec' = <<>>
    /\ trace' = <<>>
    /\ result' = <<>>
    /\ UNCHANGED bound

\* No rule matches: the compiler rejects the invocation.
RejectSyntax ==
    \E t \in Invocations :
        /\ phase = "idle"
        /\ Rule(t) = "none"
        /\ Start(t, "none", <<>>)
        /\ phase' = "done"
        /\ outcome' = "syntax_error"

\* A rule matches but the expansion does not type-check.
RejectType ==
    \E t \in Invocations :
        /\ phase = "idle"
        /\ Rule(t) # "none"
        /\ ~WellTyped(Rule(t), Bindings(t))
        /\ Start(t, Rule(t), <<>>)
        /\ phase' = "done"
        /\ outcome' = "type_error"

InvokeEmpty ==
    \E t \in Invocations :
        /\ phase = "idle"
        /\ Rule(t) = "empty"
        /\ Start(t, "empty", ExpandEmpty)
        /\ phase' = "running"
        /\ outcome' = "pending"

InvokeRepeat ==
    \E t \in Invocations :
        /\ phase = "idle"
        /\ Rule(t) = "repeat"
        /\ WellTyped("repeat", Bindings(t))
        /\ Start(t, "repeat", ExpandRepeat(Bindings(t)[1], Bindings(t)[2]))
        /\ phase' = "running"
        /\ outcome' = "pending"

InvokeList ==
    \E t \in Invocations :
        /\ phase = "idle"
        /\ Rule(t) = "list"
        /\ WellTyped("list", Bindings(t))
        /\ Start(t, "list", ExpandList(Bindings(t)))
        /\ phase' = "running"
        /\ outcome' = "pending"

Running(op) == phase = "running" /\ ip <= Len(code) /\ code[ip].op = op

\* $span.into(): evaluate the expression, convert the value.
StepInto ==
    /\ Running("into")
    /\ trace' = Append(trace, code[ip].e)
    /\ stack' = Append(stack, Convert(code[ip].e))
    /\ ip' = ip + 1
    /\ UNCHANGED <<inv, form, phase, code, vec, result, outcome, bound>>

\* $n: evaluate the count expression.
StepEval ==
    /\ Running("eval")
    /\ trace' = Append(trace, code[ip].e)
    /\ stack' = Append(stack, code[ip].e)
    /\ ip' = ip + 1
    /\ UNCHANGED <<inv, form, phase, code, vec, result, outcome, bound>>

\* vec![elem; n] with both operands evaluated.
StepFromElem ==
    /\ Running("from_elem")
    /\ LET elem == stack[Len(stack) - 1]
           n == stack[Len(stack)].n
       IN  IF CapacityOverflow(n)
           THEN /\ phase' = "done"
                /\ outcome' = "panic"
                /\ vec' = <<>>
           ELSE /\ vec' = FromElem(elem, n)
                /\ UNCHANGED <<phase, outcome>>
    /\ stack' = SubSeq(stack, 1, Len(stack) - 2)
    /\ ip' = ip + 1
    /\ UNCHANGED <<inv, form, code, trace, result, bound>>

\* vec![a, b, ...]: the k converted elements, in the order they were pushed.
StepVec ==
    /\ Running("vec")
    /\ LET k == code[ip].k
       IN  /\ vec' = SubSeq(stack, Len(stack) - k + 1, Len(stack))
           /\ stack' = SubSeq(stack, 1, Len(stack) - k)
    /\ ip' = ip + 1
    /\ UNCHANGED <<inv, form, phase, code, trace, result, outcome, bound>>

\* Line::from(vec): the expansion returns.
StepLineFrom ==
    /\ Running("line_from")
    /\ result' = <<LineFrom(vec)>>
    /\ vec' = <<>>
    /\ ip' = ip + 1
    /\ phase' = "done"
    /\ outcome' = "ok"
    /\ UNCHANGED <<inv, form, code, stack, trace, bound>>

\* Line::default(): the expansion returns.
StepDefault ==
    /\ Running("default")
    /\ result' = <<DefaultLine>>
    /\ ip' = ip + 1
    /\ phase' = "done"
    /\ outcome' = "ok"
    /\ UNCHANGED <<inv, form, code, stack, vec, trace, bound>>

\* The statement holding the invocation has ended: its temporaries are gone.
Finish ==
    /\ inv' = <<>>
    /\ form' = "none"
    /\ phase' = "idle"
    /\ code' = <<>>
    /\ ip' = 1
    /\ stack' = <<>>
    /\ vec' = <<>>
    /\ trace' = <<>>
    /\ result' = <<>>
    /\ outcome' = "pending"

\* let line = line![...];  the caller keeps the line (tests, lines 63-75).
Let ==
    /\ phase = "done"
    /\ outcome = "ok"
    /\ bound' = << [form |-> form, args |-> Bindings(inv),
                    trailing |-> HasTrailingComma(inv), line |-> result[1]] >>
    /\ Finish

\* The statement ends without the line being kept.
Discard ==
    /\ phase = "done"
    /\ Finish
    /\ UNCHANGED bound

Next ==
    \/ RejectSyntax
    \/ RejectType
    \/ InvokeEmpty
    \/ InvokeRepeat
    \/ InvokeList
    \/ StepInto
    \/ StepEval
    \/ StepFromElem
    \/ StepVec
    \/ StepLineFrom
    \/ StepDefault
    \/ Let
    \/ Discard

Spec == Init /\ [][Next]_vars

---------------------------------------------------------------------------
\* Properties.

Args == Bindings(inv)

Returned == phase = "done" /\ outcome = "ok"

Accepted == form # "none" /\ outcome # "type_error"

Min(a, b) == IF a < b THEN a ELSE b

\* C1: a list-form invocation of k expressions returns a line of exactly k
\* spans whose i-th span is the conversion of the i-th expression: nothing
\* is dropped, reordered or merged, also when elements are equal.
C1_ListSpansInOrder ==
    (phase = "done" /\ form = "list" /\ Accepted) =>
        /\ outcome = "ok"
        /\ Len(result) = 1
        /\ Len(result[1].spans) = Len(Args)
        /\ \A i \in 1..Len(Args) : result[1].spans[i] = Convert(Args[i])

\* A two-element list of equal elements has returned.
C1_Witness ==
    /\ Returned
    /\ form = "list"
    /\ Len(Args) >= 2
    /\ Args[1] = Args[2]
    /\ Len(result[1].spans) = 2

C3_EmptyYieldsDefault ==
    (phase = "done" /\ form = "empty") =>
        /\ outcome = "ok"
        /\ result = <<DefaultLine>>
        /\ result[1].spans = <<>>

\* The empty invocation has returned after a non-empty line was bound.
C3_Witness ==
    /\ Returned
    /\ form = "empty"
    /\ bound # <<>>
    /\ Len(bound[1].line.spans) > 0

\* C4: conversion passes a span through unchanged and is idempotent: an
\* element written as a span (styled or not) appears in the line as
\* written, every converted value converts to itself, and two lists whose
\* elements differ only in that one is the span the other converts to
\* return equal lines.
C4_ConversionPassThrough ==
    /\ \A i \in 1..Len(stack) : stack[i].kind = "span" => Convert(stack[i]) = stack[i]
    /\ (phase = "running" /\ form = "list") =>
           \A i \in 1..Len(stack) : Args[i].kind = "span" => stack[i] = Args[i]
    /\ (phase = "running" /\ form = "repeat" /\ Len(stack) >= 1 /\ Args[1].kind = "span")
           => stack[1] = Args[1]
    /\ (Returned /\ form \in {"list", "repeat"}) =>
           \A i \in 1..Len(result[1].spans) :
               LET a == IF form = "list" THEN Args[i] ELSE Args[1]
               IN  /\ a.kind = "span" => result[1].spans[i] = a
                   /\ Convert(result[1].spans[i]) = result[1].spans[i]
    /\ ( /\ Returned
         /\ form = "list"
         /\ bound # <<>>
         /\ bound[1].form = "list"
         /\ Len(bound[1].args) = Len(Args)
         /\ \A i \in 1..Len(Args) :
               \/ Args[i] = bound[1].args[i]
               \/ Args[i].kind = "span" /\ Args[i] = Convert(bound[1].args[i])
               \/ bound[1].args[i].kind = "span" /\ bound[1].args[i] = Convert(Args[i]) )
       => result[1] = bound[1].line

\* The list [styled span, plain span] has returned with the styled span as
\* written, after the caller bound the line of [styled span, string] whose
\* string converts to that plain span.
C4_Witness ==
    /\ Returned
    /\ form = "list"
    /\ Args = <<SpanOf("world", "red"), SpanOf("hello", "none")>>
    /\ result[1].spans[1] = SpanOf("world", "red")
    /\ bound # <<>>
    /\ bound[1].form = "list"
    /\ bound[1].args = <<SpanOf("world", "red"), Str("hello")>>
    /\ result[1] = bound[1].line

\* The three documented shapes, read off the token classes position by
\* position.
IsEmptyShape(t) == t = <<>>

IsRepeatShape(t) == [i \in 1..Len(t) |-> t[i].cls] = <<"expr", "semi", "expr">>

IsListShape(t) ==
    /\ Len(t) >= 1
    /\ \A i \in 1..Len(t) : t[i].cls = (IF i % 2 = 1 THEN "expr" ELSE "comma")

\* C5: an invocation is accepted by a rule exactly when it has one of the
\* three shapes (nothing; value; count; one or more comma-separated
\* expressions with an optional trailing comma), each shape goes to its own
\* rule, and a list with a trailing comma returns the same line as the same
\* list without it.
C5_ShapesAndTrailingComma ==
    /\ phase # "idle" =>
          /\ (outcome = "syntax_error") <=>
                 ~(IsEmptyShape(inv) \/ IsRepeatShape(inv) \/ IsListShape(inv))
          /\ (form = "empty") <=> IsEmptyShape(inv)
          /\ (form = "repeat") <=> IsRepeatShape(inv)
          /\ (form = "list") <=> IsListShape(inv)
    /\ ( /\ Returned
         /\ form = "list"
         /\ bound # <<>>
         /\ bound[1].form = "list"
         /\ bound[1].args = Args
         /\ bound[1].trailing # HasTrailingComma(inv) )
       => result[1] = bound[1].line

\* A one-expression list with a trailing comma has returned after the same
\* list without the comma was bound.
C5_Witness ==
    /\ Returned
    /\ form = "list"
    /\ Len(Args) = 1
    /\ HasTrailingComma(inv)
    /\ bound # <<>>
    /\ bound[1].form = "list"
    /\ bound[1].args = Args
    /\ ~bound[1].trailing

\* C6: while and after a list-form invocation runs, the expressions
\* evaluated so far are exactly the first ones of the invocation, each
\* once, left to right; when it has returned the trace is e1, ..., ek and
\* nothing else.
C6_ListEvaluationOrder ==
    (form = "list" /\ Accepted /\ phase # "idle") =>
        /\ trace = SubSeq(Args, 1, Min(ip - 1, Len(Args)))
        /\ phase = "done" => trace = Args

\* The first of two different expressions has been evaluated, the second
\* not yet.
C6_Witness ==
    /\ phase = "running"
    /\ form = "list"
    /\ Len(Args) = 2
    /\ Args[1] # Args[2]
    /\ trace = <<Args[1]>>

C8_RepeatEvaluatesValueOnce ==
    (form = "repeat" /\ Accepted /\ phase # "idle") =>
        /\ trace = SubSeq(Args, 1, Min(ip - 1, 2))
        /\ (phase = "running" /\ ip = 2) => stack = <<Convert(Args[1])>>
        /\ (phase = "running" /\ ip = 3) => stack = <<Convert(Args[1]), Args[2]>>
        /\ phase = "done" => trace = <<Args[1], Args[2]>>
        /\ Returned =>
              \A i \in 1..Len(result[1].spans) : result[1].spans[i] = Convert(Args[1])

\* [v; 0] has returned a line without spans, v having been evaluated once.
C8_Witness ==
    /\ Returned
    /\ form = "repeat"
    /\ Args[2].n = 0
    /\ trace = <<Args[1], Args[2]>>
    /\ result[1].spans = <<>>

\* C9: the repeat form with count 0 returns the line the empty invocation
\* returns, for every value.
C9_RepeatZeroIsEmpty ==
    (Returned /\ form = "repeat" /\ Args[2].n = 0) =>
        /\ result = <<DefaultLine>>
        /\ (bound # <<>> /\ bound[1].form = "empty") => result[1] = bound[1].line

\* [v; 0] has returned after the caller bound the line of the empty
\* invocation.
C9_Witness ==
    /\ Returned
    /\ form = "repeat"
    /\ Args[2].n = 0
    /\ bound # <<>>
    /\ bound[1].form = "empty"

\* C10: an invocation of the same form and with the same argument values as
\* the one whose line the caller holds returns an equal line, whatever was
\* invoked in between; and no step of an invocation changes the line the
\* caller holds.
C10_FreshAndDeterministic ==
    /\ [](( /\ Returned
            /\ bound # <<>>
            /\ bound[1].form = form
            /\ bound[1].args = Args )
          => result[1] = bound[1].line)
    /\ [][phase # "done" => bound' = bound]_vars

\* A non-empty list has returned a second time, the line of its first
\* invocation still held by the caller.
C10_Witness ==
    /\ Returned
    /\ form = "list"
    /\ Len(Args) = 2
    /\ bound # <<>>
    /\ bound[1].form = "list"
    /\ bound[1].args = Args
    /\ result[1] = bound[1].line

====
